---- MODULE Spec2Model ----
(***************************************************************************)
(* Arqon inference bridge (src/inference_bridge/arqon_inference_bridge.py) *)
(*                                                                         *)
(* State: the bridge object (session registry, id counter, the two backend *)
(* adapters), the listener, and one handler thread per accepted            *)
(* connection with its program counter and locals.  A handler thread runs  *)
(* handle_client: it reads one message, runs process_request and sends one *)
(* reply.  The registry is a plain dict shared by all handler threads and  *)
(* the source takes no lock, so every access to shared state is a step of  *)
(* its own; thread-local computation is folded into the neighbouring step. *)
(*                                                                         *)
(* Encodings.  A model name is the tuple of its "/"-separated segments     *)
(* ("meta-llama/X" is <<"meta-llama", "X">>, "" is <<"">>); Python None    *)
(* for an optional name is <<>>.  A generated text is the tuple of its     *)
(* whitespace-separated words.  prompt, max_tokens and temperature are     *)
(* passed through to the backend untouched and decide nothing in the       *)
(* bridge, so a request carries action, session_id and model only; the     *)
(* "created" timestamp of a session is never read and is left out.         *)
(***************************************************************************)
EXTENDS Integers, Sequences, FiniteSets, TLC

\* ------------------------------------------------------------- bounds
NumConns == 2
MaxSessions == 2
MaxRequests == 1

Conns == 1..NumConns

\* ---------------------------------------------------------- model names
None == <<>>
EmptyStr == <<"">>

default_model == <<"llama3.2:latest">>

SUPPORTED_MODELS ==
    << <<"meta-llama", "Meta-Llama-3.1-70B-Instruct">>,
       <<"meta-llama", "Meta-Llama-3.1-8B-Instruct">>,
       <<"mistralai", "Mixtral-8x22B-Instruct-v0.1">>,
       <<"mistralai", "Mistral-7B-Instruct-v0.3">> >>

Supported == { SUPPORTED_MODELS[i] : i \in DOMAIN SUPPORTED_MODELS }

\* Python truthiness of an optional string: None and "" are falsy.
Truthy(m) == m # None /\ m # EmptyStr

\* Python's `a or b` on optional strings.
PyOr(a, b) == IF Truthy(a) THEN a ELSE b

\* model.startswith("meta-llama/")
StartsWithMetaLlama(m) == Len(m) >= 2 /\ m[1] = "meta-llama"

\* The model names the environment puts in requests.
LocalModel == <<"llama3.1:8b">>
MetaSupported == SUPPORTED_MODELS[1]
MistralSupported == SUPPORTED_MODELS[4]
MetaUnsupported == <<"meta-llama", "Llama-2-70b-chat-hf">>
OrgUnsupported == <<"org", "Model-1B">>

SessionModels == { None, MetaSupported }
InferModels ==
    { None, EmptyStr, LocalModel, MetaSupported, MistralSupported,
      MetaUnsupported, OrgUnsupported }

\* Session ids a request may carry: 0 (no session) and every id that can be
\* allocated (an id is "never allocated" as long as the counter is below it).
RequestIds == 0..MaxSessions

\* ------------------------------------------------------------ responses
NoError == "<None>"
Zero == [num |-> 0, den |-> 1]

InferenceResponse(sid, text, tokens, tps, model, backend, error) ==
    [session_id |-> sid, text |-> text, tokens_generated |-> tokens,
     tokens_per_second |-> tps, model_used |-> model, backend |-> backend,
     error |-> error]

NoBackendError ==
    "No inference backend available. Install Ollama (curl -fsSL https://ollama.com/install.sh | sh) or Petals (pip install petals transformers)"

\* What the local service can answer to POST /api/generate: the call raises
\* (timeout, connection error, body that is not JSON), or a JSON body comes
\* back with or without "response" / "eval_count", after `elapsed` seconds.
\* fault is history, the kind of backend failure behind the outcome: the
\* adapter never reads the status code, and a non-200 answer of the service
\* is a JSON body {"error": ...} that carries no "response".
NoCount == -1
NoFault == "<none>"
OllamaOutcomes ==
    { [exc |-> TRUE, text |-> <<>>, eval_count |-> NoCount, elapsed |-> 1,
       fault |-> "timeout"],
      [exc |-> FALSE, text |-> <<"hi", "there">>, eval_count |-> NoCount, elapsed |-> 1,
       fault |-> NoFault],
      [exc |-> FALSE, text |-> <<"hi", "there">>, eval_count |-> 3, elapsed |-> 0,
       fault |-> NoFault],
      [exc |-> FALSE, text |-> <<>>, eval_count |-> NoCount, elapsed |-> 1,
       fault |-> NoFault],
      [exc |-> FALSE, text |-> <<>>, eval_count |-> NoCount, elapsed |-> 1,
       fault |-> "non-200 status"] }

\* Mutant: the division is not guarded.
RateUnguarded(tokens, elapsed) == [num |-> tokens, den |-> elapsed]

\* tokens / elapsed if elapsed > 0 else 0, as a fraction
Rate(tokens, elapsed) ==
    IF elapsed > 0 THEN [num |-> tokens, den |-> elapsed] ELSE Zero

OllamaGenerate(model, o) ==
    IF o.exc
    THEN InferenceResponse(0, <<>>, 0, Zero, model, "ollama", "request failed")
    ELSE LET eval_count == IF o.eval_count = NoCount THEN Len(o.text)
                           ELSE o.eval_count
         IN InferenceResponse(0, o.text, eval_count, Rate(eval_count, o.elapsed),
                model, "ollama", NoError)

\* What tokenizer / model.generate / decode can do in the distributed adapter.
PetalsOutcomes ==
    { [exc |-> TRUE, text |-> <<>>, tokens |-> 0, elapsed |-> 1,
       fault |-> "decode failure"],
      [exc |-> FALSE, text |-> <<"ok">>, tokens |-> 2, elapsed |-> 1,
       fault |-> NoFault],
      [exc |-> FALSE, text |-> <<>>, tokens |-> 0, elapsed |-> 0,
       fault |-> NoFault] }

PetalsGenerateResult(model, o) ==
    IF o.exc
    THEN InferenceResponse(0, <<>>, 0, Zero, model, "petals", "generation failed")
    ELSE InferenceResponse(0, o.text, o.tokens, Rate(o.tokens, o.elapsed),
             model, "petals", NoError)

ModelNotLoaded(model) ==
    InferenceResponse(0, <<>>, 0, Zero, model, "petals", "Model not loaded")

NoBackendResponse(sid, model) ==
    InferenceResponse(sid, <<>>, 0, Zero, model, "none", NoBackendError)

\* Mutant: the distributed adapter is taken whenever it is available.
RoutePetalsFirst(model, ollama_ok, petals_ok) ==
    IF petals_ok THEN "petals"
    ELSE IF ollama_ok /\ ~StartsWithMetaLlama(model) THEN "ollama"
    ELSE "none"

\* Mutant: the distributed adapter is chosen by the prefix, as the local one.
RouteByPrefix(model, ollama_ok, petals_ok) ==
    IF ollama_ok /\ ~StartsWithMetaLlama(model) THEN "ollama"
    ELSE IF petals_ok /\ StartsWithMetaLlama(model) THEN "petals"
    ELSE "none"

\* Which branch of infer's routing a model takes.
Route(model, ollama_ok, petals_ok) ==
    IF ollama_ok /\ ~StartsWithMetaLlama(model) THEN "ollama"
    ELSE IF petals_ok /\ model \in Supported THEN "petals"
    ELSE "none"

\* -------------------------------------------------------------- replies
NoReply == [type |-> "none"]
SessionReply(sid) == [type |-> "session_id", session_id |-> sid]
SuccessReply == [type |-> "success"]
ErrorReply(e) == [type |-> "error", error |-> e]
ResponseReply(r) == [type |-> "response", response |-> r]

\* ------------------------------------------------------------- requests
NoRequest == [action |-> "none", session_id |-> 0, model |-> None]

\* The action tags process_request dispatches on.
KnownActions ==
    { "system_check", "list_models", "pull_model", "pull_recommended",
      "create_session", "close_session", "infer" }

\* Messages that are no request: bytes that are not UTF-8 (a message cut
\* inside a multi-byte character), text that is not JSON (a message cut
\* anywhere else), and a JSON value that is not an object.  The action field
\* tells which.
NotUtf8 == "<not utf-8>"
NotJson == "<not json>"
NotObject == "<not object>"
MalformedKinds == {NotUtf8, NotJson, NotObject}

Malformed == [action : MalformedKinds, session_id : {0}, model : {None}]

\* Well-formed requests with an action tag outside KnownActions.
UnknownRequests == [action : {"ping", "INFER"}, session_id : {0}, model : {None}]

Requests ==
    [action : {"create_session"}, session_id : {0}, model : SessionModels]
    \cup [action : {"close_session"}, session_id : RequestIds, model : {None}]
    \cup [action : {"infer"}, session_id : RequestIds, model : InferModels]
    \cup UnknownRequests
    \cup Malformed

\* The requests sent while handler threads overlap.
OverlapRequests ==
    [action : {"create_session"}, session_id : {0}, model : {None, MetaSupported}]
    \cup [action : {"close_session"}, session_id : {1}, model : {None}]
    \cup [action : {"infer"}, session_id : {1}, model : {None, LocalModel}]

\* A handler's locals.  was_live, fault and catalog are history: whether the
\* request's session id named a live session when the message was read, the
\* kind of failure the backend call of the request met, and the model names
\* the local service holds when its catalog is asked for.
NoLocals ==
    [session_id |-> 0, tmp |-> 0, model |-> None, obj |-> 0, v |-> 0,
     was_live |-> FALSE, fault |-> NoFault, catalog |-> <<>>]

VARIABLES
    sessions,            \* self.sessions: id -> [model, requests, obj, given, infers]
    next_session_id,     \* self.next_session_id
    ollama_available,    \* self.ollama.available
    ollama_up,           \* does the local service answer its tag listing now?
    petals_available,    \* self.petals.available
    petals_models,       \* keys of self.petals.models
    petals_tokenizers,   \* keys of self.petals.tokenizers
    running,             \* self.running
    listener,            \* start(): "init", "listening", "stopped", "exited"
    pc,                  \* handler thread of each connection
    req,                 \* the request a handler is processing
    loc,                 \* the handler's locals
    reply,               \* the last reply sent on the connection
    calls,               \* adapter methods invoked for the current request
    heap_next,           \* number of session dicts allocated so far
    returned,            \* ids returned by create_session, in return order
    overlap              \* may requests of different connections overlap?

registry == <<sessions, next_session_id>>
adapters == <<ollama_available, ollama_up, petals_available, petals_models,
              petals_tokenizers>>
server == <<running, listener>>
threads == <<pc, req, loc, reply, calls>>
ghost == <<heap_next, returned, overlap>>
vars == <<registry, adapters, server, threads, ghost>>

Live == DOMAIN sessions

\* The requests library is installed wherever the bridge is deployed.
HAS_REQUESTS == TRUE

\* OllamaClient._check_available: the probe of the tag listing
CheckAvailable(up) == HAS_REQUESTS /\ up

Init ==
    /\ sessions = <<>>
    /\ next_session_id = 1
    /\ ollama_up \in BOOLEAN
    /\ ollama_available = CheckAvailable(ollama_up)
    /\ petals_available \in BOOLEAN
    /\ petals_models = {}
    /\ petals_tokenizers = {}
    /\ running = FALSE
    /\ listener = "init"
    /\ pc = [c \in Conns |-> "none"]
    /\ req = [c \in Conns |-> NoRequest]
    /\ loc = [c \in Conns |-> NoLocals]
    /\ reply = [c \in Conns |-> NoReply]
    /\ calls = [c \in Conns |-> <<>>]
    /\ heap_next = 0
    /\ returned = <<>>
    /\ overlap \in BOOLEAN

\* ---------------------------------------------------------- environment
\* Connections are numbered in the order they are accepted.  With overlap
\* the clients are connected at the same time and their handler threads
\* interleave freely.  Without it the clients come one after the other: a
\* connection is made only when the earlier ones are closed, so that no two
\* requests are ever in progress together.
Sched(c) ==
    \A d \in Conns : d < c => IF overlap THEN pc[d] # "none" ELSE pc[d] = "closed"

Inputs == IF overlap THEN OverlapRequests ELSE Requests

CreateLabels == {"cs_read", "cs_load", "cs_incr", "cs_store"}

RECURSIVE TotalRequests(_, _)
TotalRequests(s, ids) ==
    IF ids = {} THEN 0
    ELSE LET k == CHOOSE x \in ids : TRUE
         IN s[k].requests + TotalRequests(s, ids \ {k})

\* The bounds on the run: at most MaxSessions calls of create_session, and
\* no infer on a live session once the live sessions count MaxRequests
\* requests between them.
WithinBounds(m) ==
    /\ m.action = "create_session" =>
          heap_next + Cardinality({d \in Conns : pc[d] \in CreateLabels}) < MaxSessions
    /\ (m.action = "infer" /\ m.session_id \in Live) =>
          TotalRequests(sessions, Live) < MaxRequests

\* --------------------------------------------------------- thread moves
Goto(c, label) == pc' = [pc EXCEPT ![c] = label]

SetLocal(c, l) == loc' = [loc EXCEPT ![c] = l]

\* Mutant: nothing is sent.
SendNothing(c, r) ==
    /\ reply' = reply
    /\ pc' = [pc EXCEPT ![c] = "loop"]

\* conn.send(json.dumps(response)): the reply goes out and the handler is
\* back at the head of its loop.
Send(c, r) ==
    /\ reply' = [reply EXCEPT ![c] = r]
    /\ pc' = [pc EXCEPT ![c] = "loop"]

\* An exception raised inside process_request is caught in handle_client
\* and answered with {"error": str(e)}.
Raise(c, e) == Send(c, ErrorReply(e))

Called(c, what) == calls' = [calls EXCEPT ![c] = Append(@, what)]

\* ------------------------------------------------------------- listener
Start ==
    /\ listener = "init"
    /\ listener' = "listening"
    /\ running' = TRUE
    /\ UNCHANGED <<registry, adapters, threads, ghost>>

\* The accept loop.  server.accept() blocks for up to a second, so a
\* connection that arrives within that second of stop() is still accepted.
Accept(c) ==
    /\ listener = "listening"
    /\ pc[c] = "none"
    /\ Sched(c)
    /\ Goto(c, "loop")
    /\ UNCHANGED <<server, registry, adapters, req, loc, reply, calls, ghost>>

\* while self.running fails: the listener leaves the loop and closes the
\* server socket.
ListenerExit ==
    /\ listener = "listening"
    /\ ~running
    /\ listener' = "stopped"
    /\ UNCHANGED <<running, registry, adapters, threads, ghost>>

Stop ==
    /\ running
    /\ running' = FALSE
    /\ UNCHANGED <<listener, registry, adapters, threads, ghost>>

\* -------------------------------------------------------- handle_client
Loop(c) ==
    /\ pc[c] = "loop"
    /\ Goto(c, IF running THEN "recv" ELSE "closed")
    /\ req' = [req EXCEPT ![c] = NoRequest]
    /\ loc' = [loc EXCEPT ![c] = NoLocals]
    /\ reply' = [reply EXCEPT ![c] = NoReply]
    /\ calls' = [calls EXCEPT ![c] = <<>>]
    /\ UNCHANGED <<registry, adapters, server, ghost>>

Entry(action) ==
    CASE action = "create_session" -> "cs_read"
      [] action = "close_session" -> "cl_check"
      [] action = "infer" -> "inf_check"
      [] action = "list_models" -> "list_models"
      [] action = "system_check" -> "system_check"

\* str(e) of the exception that json.loads(data.decode()) or request.get
\* raises on a message that is no request; JSONDecodeError has a reply of
\* its own.
ParseError(kind) ==
    CASE kind = NotJson -> "Invalid JSON"
      [] kind = NotUtf8 -> "'utf-8' codec can't decode byte"
      [] kind = NotObject -> "'list' object has no attribute 'get'"

\* Mutant: an unknown action is acknowledged.
UnknownActionAccepted(action) == SuccessReply

\* the else branch of process_request
UnknownAction(action) == ErrorReply("Unknown action: " \o action)

\* The registry with one more infer request noted for a live session.
Noted(s, m) ==
    IF m.action = "infer" /\ m.session_id \in DOMAIN s
    THEN [s EXCEPT ![m.session_id].infers = @ + 1]
    ELSE s

\* data = conn.recv(65536); request = json.loads(data.decode()); the
\* dispatch on request.get("action", "infer").  A message that is no
\* request and a request with an unknown action are answered here.
Recv(c, m) ==
    /\ pc[c] = "recv"
    /\ WithinBounds(m)
    /\ req' = [req EXCEPT ![c] = m]
    /\ SetLocal(c, [loc[c] EXCEPT !.was_live = m.session_id \in Live])
    /\ sessions' = Noted(sessions, m)
    /\ IF m.action \in MalformedKinds
       THEN Send(c, ErrorReply(ParseError(m.action)))
       ELSE IF m.action \notin KnownActions
            THEN Send(c, UnknownAction(m.action))
            ELSE Goto(c, Entry(m.action)) /\ UNCHANGED reply
    /\ UNCHANGED <<next_session_id, adapters, server, calls, ghost>>

\* Mutant: the loss of a connection stops the server.
DisconnectStops(c) ==
    /\ pc[c] = "recv"
    /\ Goto(c, "closed")
    /\ running' = FALSE
    /\ UNCHANGED <<listener, registry, adapters, req, loc, reply, calls, ghost>>

\* Mutant: the sessions go with the connection.
DisconnectForgets(c) ==
    /\ pc[c] = "recv"
    /\ Goto(c, "closed")
    /\ sessions' = <<>>
    /\ UNCHANGED <<next_session_id, adapters, server, req, loc, reply, calls, ghost>>

\* recv returns no data or raises (the client has gone, the connection was
\* reset): the loop is left and the connection closed
Disconnect(c) ==
    /\ pc[c] = "recv"
    /\ Goto(c, "closed")
    /\ UNCHANGED <<registry, adapters, server, req, loc, reply, calls, ghost>>

\* ------------------------------------------------------- create_session
\* Mutant: the counter is stored back unchanged.
IncrementedNot(tmp) == tmp

\* The value `self.next_session_id += 1` stores, from the value it loaded.
Incremented(tmp) == tmp + 1

\* The dict stored for a new session.  obj tells dict objects apart (two
\* dicts stored under one id are two objects); given and infers are history:
\* the model argument of the call, and the number of infer requests read
\* with the session's id since.
NewSession(model, obj) ==
    [model |-> PyOr(model, default_model), requests |-> 0, obj |-> obj,
     given |-> model, infers |-> 0]

\* session_id = self.next_session_id
CsRead(c) ==
    /\ pc[c] = "cs_read"
    /\ SetLocal(c, [loc[c] EXCEPT !.session_id = next_session_id])
    /\ Goto(c, "cs_load")
    /\ UNCHANGED <<registry, adapters, server, req, reply, calls, ghost>>

\* self.next_session_id += 1, the load
CsLoad(c) ==
    /\ pc[c] = "cs_load"
    /\ SetLocal(c, [loc[c] EXCEPT !.tmp = next_session_id])
    /\ Goto(c, "cs_incr")
    /\ UNCHANGED <<registry, adapters, server, req, reply, calls, ghost>>

\* self.next_session_id += 1, the store
CsIncr(c) ==
    /\ pc[c] = "cs_incr"
    /\ next_session_id' = Incremented(loc[c].tmp)
    /\ Goto(c, "cs_store")
    /\ UNCHANGED <<sessions, adapters, server, req, loc, reply, calls, ghost>>

\* self.sessions[session_id] = {...}; return session_id; the reply
CsStore(c) ==
    /\ pc[c] = "cs_store"
    /\ sessions' = [k \in Live \cup {loc[c].session_id} |->
                      IF k = loc[c].session_id
                      THEN NewSession(req[c].model, heap_next + 1)
                      ELSE sessions[k]]
    /\ heap_next' = heap_next + 1
    /\ returned' = Append(returned, loc[c].session_id)
    /\ Send(c, SessionReply(loc[c].session_id))
    /\ UNCHANGED <<next_session_id, adapters, server, req, loc, calls, overlap>>

\* -------------------------------------------------------- close_session
\* Mutant: close_session removes nothing.
DeletedNothing(s, sid) == s

\* The registry after `del self.sessions[session_id]`.
Deleted(s, sid) == [k \in (DOMAIN s) \ {sid} |-> s[k]]

\* if session_id in self.sessions
ClCheck(c) ==
    /\ pc[c] = "cl_check"
    /\ IF req[c].session_id \in Live
       THEN Goto(c, "cl_del") /\ UNCHANGED reply
       ELSE Send(c, SuccessReply)
    /\ UNCHANGED <<registry, adapters, server, req, loc, calls, ghost>>

\* del self.sessions[session_id]; the reply {"success": True}
ClDel(c) ==
    /\ pc[c] = "cl_del"
    /\ IF req[c].session_id \in Live
       THEN /\ sessions' = Deleted(sessions, req[c].session_id)
            /\ Send(c, SuccessReply)
       ELSE /\ Raise(c, "KeyError")
            /\ UNCHANGED sessions
    /\ UNCHANGED <<next_session_id, adapters, server, req, loc, calls, ghost>>

\* ---------------------------------------------------------------- infer
\* Mutant: the session's model is ignored, the process default is used.
EffectiveModelNoSticky(request_model, fallback) == PyOr(request_model, default_model)

\* Mutant: the request's model is ignored.
EffectiveModelNoOverride(request_model, fallback) == fallback

\* request.model or <fallback>
EffectiveModel(request_model, fallback) == PyOr(request_model, fallback)

\* Mutant: the response keeps the session id the adapter put in it.
StampNot(r, sid) == r

\* response.session_id = request.session_id
Stamp(r, sid) == [r EXCEPT !.session_id = sid]

\* Mutant: the `or self.default_model` is forgotten.
NoSessionModelRaw(request_model) == request_model

\* model = request.model or self.default_model
NoSessionModel(request_model) == EffectiveModel(request_model, default_model)

\* if request.session_id in self.sessions ... else: model = request.model
\* or self.default_model
InfCheck(c) ==
    /\ pc[c] = "inf_check"
    /\ IF req[c].session_id \in Live
       THEN Goto(c, "inf_model") /\ UNCHANGED loc
       ELSE /\ SetLocal(c, [loc[c] EXCEPT
                   !.model = NoSessionModel(req[c].model)])
            /\ Goto(c, "inf_route")
    /\ UNCHANGED <<registry, adapters, server, req, reply, calls, ghost>>

\* model = request.model or self.sessions[request.session_id]["model"]
\* (the registry is read only when request.model is falsy)
InfModel(c) ==
    /\ pc[c] = "inf_model"
    /\ IF Truthy(req[c].model) \/ req[c].session_id \in Live
       THEN /\ SetLocal(c, [loc[c] EXCEPT !.model =
                   EffectiveModel(req[c].model,
                       IF req[c].session_id \in Live
                       THEN sessions[req[c].session_id].model
                       ELSE None)])
            /\ Goto(c, "inf_get")
            /\ UNCHANGED reply
       ELSE Raise(c, "KeyError") /\ UNCHANGED loc
    /\ UNCHANGED <<registry, adapters, server, req, calls, ghost>>

\* self.sessions[request.session_id]["requests"] += 1, the load: the
\* session dict is fetched and its counter read
InfGet(c) ==
    /\ pc[c] = "inf_get"
    /\ IF req[c].session_id \in Live
       THEN /\ SetLocal(c, [loc[c] EXCEPT
                   !.obj = sessions[req[c].session_id].obj,
                   !.v = sessions[req[c].session_id].requests])
            /\ Goto(c, "inf_put")
            /\ UNCHANGED reply
       ELSE Raise(c, "KeyError") /\ UNCHANGED loc
    /\ UNCHANGED <<registry, adapters, server, req, calls, ghost>>

\* Mutant: the request counter is never stored.
CountedNot(s, sid, obj, v) == s

\* The registry after the store of `... ["requests"] += 1` into the dict
\* object obj, which was fetched with counter v.  A dict that is no longer
\* in the registry takes the store and nobody sees it.
Counted(s, sid, obj, v) ==
    IF sid \in DOMAIN s /\ s[sid].obj = obj
    THEN [s EXCEPT ![sid].requests = v + 1]
    ELSE s

\* self.sessions[request.session_id]["requests"] += 1, the store
InfPut(c) ==
    /\ pc[c] = "inf_put"
    /\ sessions' = Counted(sessions, req[c].session_id, loc[c].obj, loc[c].v)
    /\ Goto(c, "inf_route")
    /\ UNCHANGED <<next_session_id, adapters, server, req, loc, reply, calls, ghost>>

\* Mutant: a failed call of the local adapter is made once more.
InfOllamaRetry(c) ==
    /\ pc[c] = "inf_route"
    /\ Route(loc[c].model, ollama_available, petals_available) = "ollama"
    /\ \E o \in OllamaOutcomes :
         /\ ollama_up \/ o.exc
         /\ Send(c, ResponseReply(Stamp(OllamaGenerate(loc[c].model, o),
                                        req[c].session_id)))
         /\ SetLocal(c, [loc[c] EXCEPT !.fault = o.fault])
         /\ calls' = [calls EXCEPT ![c] =
                IF o.exc THEN <<"ollama.generate", "ollama.generate">>
                ELSE <<"ollama.generate">>]
    /\ UNCHANGED <<registry, adapters, server, req, ghost>>

\* response = self.ollama.generate(...); response.session_id = ...; reply.
\* A service that is down answers nothing: requests.post raises.
InfOllama(c) ==
    /\ pc[c] = "inf_route"
    /\ Route(loc[c].model, ollama_available, petals_available) = "ollama"
    /\ \E o \in OllamaOutcomes :
         /\ ollama_up \/ o.exc
         /\ Send(c, ResponseReply(Stamp(OllamaGenerate(loc[c].model, o),
                                        req[c].session_id)))
         /\ SetLocal(c, [loc[c] EXCEPT !.fault = o.fault])
    /\ Called(c, "ollama.generate")
    /\ UNCHANGED <<registry, adapters, server, req, ghost>>

\* response = self.petals.generate(...): enters PetalsClient.generate
InfPetals(c) ==
    /\ pc[c] = "inf_route"
    /\ Route(loc[c].model, ollama_available, petals_available) = "petals"
    /\ Called(c, "petals.generate")
    /\ Goto(c, "pt_check")
    /\ UNCHANGED <<registry, adapters, server, req, loc, reply, ghost>>

\* the else branch: the "none" response; response.session_id = ...; reply
InfNone(c) ==
    /\ pc[c] = "inf_route"
    /\ Route(loc[c].model, ollama_available, petals_available) = "none"
    /\ Send(c, ResponseReply(Stamp(NoBackendResponse(req[c].session_id, loc[c].model),
                                   req[c].session_id)))
    /\ UNCHANGED <<registry, adapters, server, req, loc, calls, ghost>>

\* ------------------------------------------------ PetalsClient.generate
\* load_model returned False: generate answers "Model not loaded"
NotLoaded(c) ==
    /\ Send(c, ResponseReply(Stamp(ModelNotLoaded(loc[c].model), req[c].session_id)))
    /\ SetLocal(c, [loc[c] EXCEPT !.fault = "model not loaded"])

\* Mutant: nothing is remembered of earlier loads.
MemoizedNever(model, models) == FALSE

\* model in self.models
Memoized(model, models) == model \in models

\* if model not in self.models: load_model(model) -- which returns False
\* when the adapter is unavailable and True when the model is loaded by now
PtCheck(c) ==
    /\ pc[c] = "pt_check"
    /\ IF Memoized(loc[c].model, petals_models)
       THEN Goto(c, "pt_gen") /\ UNCHANGED <<reply, calls, loc>>
       ELSE /\ Called(c, "petals.load_model")
            /\ IF petals_available
               THEN Goto(c, "pl_tok") /\ UNCHANGED <<reply, loc>>
               ELSE NotLoaded(c)
    /\ UNCHANGED <<registry, adapters, server, req, ghost>>

\* self.tokenizers[model_name] = AutoTokenizer.from_pretrained(model_name)
PlTok(c) ==
    /\ pc[c] = "pl_tok"
    /\ \E ok \in BOOLEAN :
         IF ok
         THEN /\ petals_tokenizers' = petals_tokenizers \cup {loc[c].model}
              /\ Goto(c, "pl_model")
              /\ UNCHANGED <<reply, loc>>
         ELSE /\ NotLoaded(c)
              /\ UNCHANGED petals_tokenizers
    /\ UNCHANGED <<registry, ollama_available, ollama_up, petals_available, petals_models,
                   server, req, calls, ghost>>

\* self.models[model_name] = AutoDistributedModelForCausalLM.from_pretrained(...)
PlModel(c) ==
    /\ pc[c] = "pl_model"
    /\ \E ok \in BOOLEAN :
         IF ok
         THEN /\ petals_models' = petals_models \cup {loc[c].model}
              /\ Goto(c, "pt_gen")
              /\ UNCHANGED <<reply, loc>>
         ELSE /\ NotLoaded(c)
              /\ UNCHANGED petals_models
    /\ UNCHANGED <<registry, ollama_available, ollama_up, petals_available, petals_tokenizers,
                   server, req, calls, ghost>>

\* the try block of generate: tokenizer, model.generate, decode, the response
PtGen(c) ==
    /\ pc[c] = "pt_gen"
    /\ \E o \in PetalsOutcomes :
         IF loc[c].model \in petals_tokenizers /\ loc[c].model \in petals_models
         THEN /\ Send(c, ResponseReply(Stamp(PetalsGenerateResult(loc[c].model, o),
                                             req[c].session_id)))
              /\ SetLocal(c, [loc[c] EXCEPT !.fault = o.fault])
         ELSE /\ Send(c, ResponseReply(Stamp(
                      PetalsGenerateResult(loc[c].model, [o EXCEPT !.exc = TRUE]),
                      req[c].session_id)))
              /\ SetLocal(c, [loc[c] EXCEPT !.fault = "model not loaded"])
    /\ UNCHANGED <<registry, adapters, server, req, calls, ghost>>

\* ----------------------------------------------------------- list_models
\* What GET /api/tags meets: the names the service holds, in its order, and
\* whether the answer can be read to the end (exc: no answer, no JSON, or an
\* entry of the wrong shape after the names before it were read).
TagOutcomes ==
    [exc : BOOLEAN,
     names : { <<>>, <<LocalModel>>, <<LocalModel, LocalModel>>,
               <<MetaSupported, LocalModel>> }]

ModelInfo(name, backend, available) ==
    [name |-> name, backend |-> backend, available |-> available]

\* OllamaClient.list_models
OllamaListModels(available, o) ==
    IF ~available \/ o.exc THEN <<>>
    ELSE [i \in DOMAIN o.names |-> ModelInfo(o.names[i], "ollama", TRUE)]

\* PetalsClient.list_models
PetalsListModels(available) ==
    [i \in DOMAIN SUPPORTED_MODELS |->
        ModelInfo(SUPPORTED_MODELS[i], "petals", available)]

\* Mutant: the distributed list comes first.
ListModelsReplyDistributedFirst(local, distributed) ==
    [type |-> "models", models |-> distributed \o local]

\* models.extend(local); models.extend(distributed); {"models": models}
ListModelsReply(local, distributed) ==
    [type |-> "models", models |-> local \o distributed]

\* the list_models branch of process_request.  A service that is down
\* answers nothing.
ListModels(c) ==
    /\ pc[c] = "list_models"
    /\ \E o \in TagOutcomes :
         /\ ollama_up \/ o.exc
         /\ Send(c, ListModelsReply(OllamaListModels(ollama_available, o),
                                    PetalsListModels(petals_available)))
         /\ SetLocal(c, [loc[c] EXCEPT
                !.catalog = o.names,
                !.fault = IF ~ollama_available THEN "local unavailable"
                          ELSE IF o.exc THEN "catalog query failed"
                          ELSE NoFault])
    /\ UNCHANGED <<registry, adapters, server, req, calls, ghost>>

\* ---------------------------------------------------------- system_check
SystemCheckReply(ollama_ok, petals_ok) ==
    [type |-> "system_check", ollama |-> ollama_ok, petals |-> petals_ok]

\* the system_check branch: the report is built from the two availability
\* flags and the local catalog; m["name"].split(":") raises on a catalog
\* entry whose name is no string, and handle_client answers with the error.
SystemCheck(c) ==
    /\ pc[c] = "system_check"
    /\ \/ Send(c, SystemCheckReply(ollama_available, petals_available))
       \/ /\ ollama_available /\ ollama_up
          /\ Raise(c, "'int' object has no attribute 'split'")
    /\ UNCHANGED <<registry, adapters, server, req, loc, calls, ghost>>

\* ------------------------------------------------------ the local service
\* The local service is a process of its own: it can stop answering, and
\* come back, at any moment of the bridge's life.  Nothing in the bridge
\* runs when it does.
ServiceDown ==
    /\ ollama_up
    /\ ollama_up' = FALSE
    /\ UNCHANGED <<registry, ollama_available, petals_available, petals_models,
                   petals_tokenizers, server, threads, ghost>>

ServiceUp ==
    /\ ~ollama_up
    /\ ollama_up' = TRUE
    /\ UNCHANGED <<registry, ollama_available, petals_available, petals_models,
                   petals_tokenizers, server, threads, ghost>>

\* ------------------------------------------------------- specifications
Next ==
    \/ Start
    \/ ListenerExit
    \/ Stop
    \/ \E c \in Conns :
         \/ Accept(c)
         \/ Loop(c)
         \/ \E m \in Inputs : Recv(c, m)
         \/ Disconnect(c)
         \/ CsRead(c) \/ CsLoad(c) \/ CsIncr(c) \/ CsStore(c)
         \/ ClCheck(c) \/ ClDel(c)
         \/ InfCheck(c) \/ InfModel(c) \/ InfGet(c) \/ InfPut(c)
         \/ InfOllama(c) \/ InfPetals(c) \/ InfNone(c)
         \/ PtCheck(c) \/ PlTok(c) \/ PlModel(c) \/ PtGen(c)

\* Handler threads interleave at every access to shared state.
OverlapInit == Init /\ overlap
Spec == OverlapInit /\ [][Next]_vars

\* Requests are handled one after the other.
SeqInit == Init /\ ~overlap
SeqSpec == SeqInit /\ [][Next]_vars

\* The steps of the handler thread of c between reading a message and
\* sending its reply.  The thread is scheduled until it blocks, and every
\* backend call returns or raises: the local one has a timeout of its own.
Handler(c) ==
    \/ CsRead(c) \/ CsLoad(c) \/ CsIncr(c) \/ CsStore(c)
    \/ ClCheck(c) \/ ClDel(c)
    \/ InfCheck(c) \/ InfModel(c) \/ InfGet(c) \/ InfPut(c)
    \/ InfOllama(c) \/ InfPetals(c) \/ InfNone(c)
    \/ PtCheck(c) \/ PlTok(c) \/ PlModel(c) \/ PtGen(c)

\* Clients that open sessions without a model and use the first session
\* only, with every kind of infer request.
LightRequests ==
    [action : {"create_session"}, session_id : {0}, model : {None}]
    \cup [action : {"close_session"}, session_id : {1}, model : {None}]
    \cup [action : {"infer"}, session_id : {0, 1}, model : InferModels]
    \cup [action : {NotJson, "ping"}, session_id : {0}, model : {None}]

LightNext ==
    \/ Start
    \/ ListenerExit
    \/ Stop
    \/ \E c \in Conns :
         \/ Accept(c)
         \/ Loop(c)
         \/ \E m \in LightRequests : Recv(c, m)
         \/ Disconnect(c)
         \/ CsRead(c) \/ CsLoad(c) \/ CsIncr(c) \/ CsStore(c)
         \/ ClCheck(c) \/ ClDel(c)
         \/ InfCheck(c) \/ InfModel(c) \/ InfGet(c) \/ InfPut(c)
         \/ InfOllama(c) \/ InfPetals(c) \/ InfNone(c)
         \/ PtCheck(c) \/ PlTok(c) \/ PlModel(c) \/ PtGen(c)

\* Requests are handled one after the other and no handler thread starves.
FairSeqSpec ==
    SeqInit /\ [][LightNext]_vars /\ \A c \in Conns : WF_vars(Handler(c))

\* Clients that send no infer: they open sessions, close the first one, and
\* send text that is not JSON.
FaultRequests ==
    [action : {"create_session"}, session_id : {0}, model : {None}]
    \cup [action : {"close_session"}, session_id : {1}, model : {None}]
    \cup [action : {NotJson}, session_id : {0}, model : {None}]

FaultNext ==
    \/ Start
    \/ ListenerExit
    \/ Stop
    \/ \E c \in Conns :
         \/ Accept(c)
         \/ Loop(c)
         \/ \E m \in FaultRequests : Recv(c, m)
         \/ Disconnect(c)
         \/ CsRead(c) \/ CsLoad(c) \/ CsIncr(c) \/ CsStore(c)
         \/ ClCheck(c) \/ ClDel(c)

\* Handler threads interleave, under clients that send no infer.
FaultSpec == OverlapInit /\ [][FaultNext]_vars

\* Clients that also ask for the model list and the system check, while the
\* local service goes down and comes back.
AdapterRequests ==
    LightRequests
    \cup [action : {"list_models", "system_check"}, session_id : {0}, model : {None}]

AdapterNext ==
    \/ Start
    \/ ServiceDown
    \/ ServiceUp
    \/ \E c \in Conns :
         \/ Accept(c)
         \/ Loop(c)
         \/ \E m \in AdapterRequests : Recv(c, m)
         \/ Disconnect(c)
         \/ CsRead(c) \/ CsLoad(c) \/ CsIncr(c) \/ CsStore(c)
         \/ ClCheck(c) \/ ClDel(c)
         \/ InfCheck(c) \/ InfModel(c) \/ InfGet(c) \/ InfPut(c)
         \/ InfOllama(c) \/ InfPetals(c) \/ InfNone(c)
         \/ PtCheck(c) \/ PlTok(c) \/ PlModel(c) \/ PtGen(c)
         \/ ListModels(c) \/ SystemCheck(c)

\* Requests are handled one after the other, with every kind of request,
\* beside a local service that comes and goes.
AdapterSpec == SeqInit /\ [][AdapterNext]_vars

\* The two generate methods on their own, over every answer and every
\* reading of the clock: time.time() is the wall clock, so that elapsed is
\* zero when the clock has not ticked and negative when it was set back
\* during the call.  The counts are those of a service that counts tokens.
MaxCount == 3
Elapsed == -1..2
Texts == { <<>>, <<"hi">>, <<"hi", "there">> }

OllamaAnswers ==
    [exc : BOOLEAN, text : Texts, eval_count : {NoCount} \cup 0..MaxCount,
     elapsed : Elapsed, fault : {NoFault}]

PetalsAnswers ==
    [exc : BOOLEAN, text : Texts, tokens : 0..MaxCount, elapsed : Elapsed,
     fault : {NoFault}]

\* One caller for each adapter.
LocalCaller == CHOOSE c \in Conns : \A d \in Conns : c <= d
DistributedCaller == CHOOSE c \in Conns : \A d \in Conns : d <= c

\* OllamaClient.generate returns; the clock reading is kept in tmp
GenerateLocal(c) ==
    /\ \E o \in OllamaAnswers :
         /\ reply' = [reply EXCEPT ![c] = ResponseReply(OllamaGenerate(LocalModel, o))]
         /\ SetLocal(c, [loc[c] EXCEPT !.tmp = o.elapsed])
    /\ UNCHANGED <<registry, adapters, server, pc, req, calls, ghost>>

\* PetalsClient.generate returns from its try block
GenerateDistributed(c) ==
    /\ \E o \in PetalsAnswers :
         /\ reply' = [reply EXCEPT ![c] =
                ResponseReply(PetalsGenerateResult(MetaSupported, o))]
         /\ SetLocal(c, [loc[c] EXCEPT !.tmp = o.elapsed])
    /\ UNCHANGED <<registry, adapters, server, pc, req, calls, ghost>>

GenerateNext == GenerateLocal(LocalCaller) \/ GenerateDistributed(DistributedCaller)

GenerateSpec == SeqInit /\ [][GenerateNext]_vars

\* ------------------------------------------------- the standalone bridge
\* PetalsBridge (src/cpp_kernel/inference/petals_bridge.py) is a server of
\* the same build: self.running, an accept loop with a timeout of a second,
\* and one daemon handler thread per connection.  It is modelled on the same
\* variables: running, listener, pc, req and reply mean what they mean
\* above, petals_available is PETALS_AVAILABLE, and petals_tokenizers and
\* petals_models hold model_name once self.tokenizer and self.model are set.
\* The type tag of a message is in req[c].action.  The bridge has no
\* sessions and no local adapter.
model_name == MetaUnsupported

BridgeMessages ==
    [action : {"generate", "status", "shutdown", "ping"} \cup MalformedKinds,
     session_id : {0}, model : {None}]

\* The dict PetalsBridge.generate returns, as handle_client sends it.
GenerateReply(error, tokens, text) ==
    [type |-> "result", error |-> error, tokens |-> tokens, text |-> text]

StatusReply(ready, available) ==
    [type |-> "status", model |-> model_name, ready |-> ready,
     petals_available |-> available]

ShuttingDown == [type |-> "shutting_down"]

\* PetalsBridge.generate
BridgeGenerateResult(loaded, o) ==
    IF ~loaded THEN GenerateReply("Model not loaded", 0, <<>>)
    ELSE IF o.exc THEN GenerateReply("generation failed", 0, <<>>)
    ELSE GenerateReply(NoError, o.tokens, o.text)

\* main(): the bridge is built and load_model has run (or was skipped with
\* --no-load).  load_model sets the tokenizer, then the model, and stops at
\* the first failure.
BridgeInit ==
    /\ sessions = <<>>
    /\ next_session_id = 1
    /\ ollama_available = FALSE
    /\ ollama_up = FALSE
    /\ petals_available \in BOOLEAN
    /\ petals_tokenizers \in (IF petals_available THEN {{}, {model_name}} ELSE {{}})
    /\ petals_models \in (IF petals_tokenizers = {} THEN {{}} ELSE {{}, {model_name}})
    /\ running = FALSE
    /\ listener = "init"
    /\ pc = [c \in Conns |-> "none"]
    /\ req = [c \in Conns |-> NoRequest]
    /\ loc = [c \in Conns |-> NoLocals]
    /\ reply = [c \in Conns |-> NoReply]
    /\ calls = [c \in Conns |-> <<>>]
    /\ heap_next = 0
    /\ returned = <<>>
    /\ overlap = TRUE

\* start_server: bind, listen, self.running = True
BridgeStart ==
    /\ listener = "init"
    /\ listener' = "listening"
    /\ running' = TRUE
    /\ UNCHANGED <<registry, adapters, threads, ghost>>

\* accept() and the start of the handler thread
BridgeAccept(c) ==
    /\ listener = "listening"
    /\ pc[c] = "none"
    /\ Sched(c)
    /\ Goto(c, "loop")
    /\ UNCHANGED <<server, registry, adapters, req, loc, reply, calls, ghost>>

\* while self.running fails; self.server_socket.close()
BridgeListenerExit ==
    /\ listener = "listening"
    /\ ~running
    /\ listener' = "stopped"
    /\ UNCHANGED <<running, registry, adapters, threads, ghost>>

\* start_server has returned, main returns and the interpreter exits: the
\* handler threads are daemon threads, nobody joins them, and they end
\* wherever they are.
BridgeExit ==
    /\ listener = "stopped"
    /\ listener' = "exited"
    /\ pc' = [c \in Conns |->
                IF pc[c] \in {"none", "closed"} THEN pc[c] ELSE "killed"]
    /\ UNCHANGED <<running, registry, adapters, req, loc, reply, calls, ghost>>

\* while self.running, at the head of the handler's loop
BridgeLoop(c) ==
    /\ pc[c] = "loop"
    /\ Goto(c, IF running THEN "recv" ELSE "closed")
    /\ req' = [req EXCEPT ![c] = NoRequest]
    /\ reply' = [reply EXCEPT ![c] = NoReply]
    /\ UNCHANGED <<registry, adapters, server, loc, calls, ghost>>

\* data = client_socket.recv(65536); json.loads(data.decode('utf-8')); the
\* if/elif chain on request.get('type').  Only json.JSONDecodeError is
\* caught inside the loop: any other exception leaves the loop and the
\* connection is closed.  A type outside the chain falls through it.
BridgeRecv(c, m) ==
    /\ pc[c] = "recv"
    /\ req' = [req EXCEPT ![c] = m]
    /\ CASE m.action = "generate" ->
              Goto(c, "generate") /\ UNCHANGED <<reply, running>>
         [] m.action = "status" ->
              /\ Send(c, StatusReply(petals_models # {}, petals_available))
              /\ UNCHANGED running
         [] m.action = "shutdown" ->
              /\ running' = FALSE
              /\ reply' = [reply EXCEPT ![c] = ShuttingDown]
              /\ Goto(c, "closed")
         [] m.action = NotJson ->
              Send(c, ErrorReply("Invalid JSON")) /\ UNCHANGED running
         [] m.action \in {NotUtf8, NotObject} ->
              Goto(c, "closed") /\ UNCHANGED <<reply, running>>
         [] OTHER ->
              Goto(c, "loop") /\ UNCHANGED <<reply, running>>
    /\ UNCHANGED <<registry, adapters, listener, loc, calls, ghost>>

\* recv returns no data: the client has gone
BridgeDisconnect(c) ==
    /\ pc[c] = "recv"
    /\ Goto(c, "closed")
    /\ UNCHANGED <<registry, adapters, server, req, loc, reply, calls, ghost>>

\* result = self.generate(...); client_socket.send(json.dumps(result))
BridgeGenerate(c) ==
    /\ pc[c] = "generate"
    /\ \E o \in PetalsOutcomes :
         Send(c, BridgeGenerateResult(petals_models # {} /\ petals_tokenizers # {}, o))
    /\ UNCHANGED <<registry, adapters, server, req, loc, calls, ghost>>

BridgeNext ==
    \/ BridgeStart
    \/ BridgeListenerExit
    \/ BridgeExit
    \/ \E c \in Conns :
         \/ BridgeAccept(c)
         \/ BridgeLoop(c)
         \/ \E m \in BridgeMessages : BridgeRecv(c, m)
         \/ BridgeDisconnect(c)
         \/ BridgeGenerate(c)

\* The standalone bridge with its clients connected at the same time.
BridgeSpec == BridgeInit /\ [][BridgeNext]_vars

\* =============================================================== claims
Range(q) == { q[i] : i \in DOMAIN q }

\* The handler of c has just sent the reply to an infer request.
AfterInfer(c) == pc[c] = "loop" /\ req[c].action = "infer"

\* The handler of c has just sent the reply to a close_session request.
AfterClose(c) == pc[c] = "loop" /\ req[c].action = "close_session"

\* A namespaced model identifier: the name contains the organization/model
\* path separator.
IsNamespaced(m) == Len(m) >= 2

\* The model a session falls back to, from the argument of its creation.
StickyOf(sid) == PyOr(sessions[sid].given, default_model)

\* C1: over any sequence of create_session, close_session and infer, the
\* first create_session returns 1, every later one returns a strictly larger
\* id (so no id is returned twice, closed or not), and every live id lies in
\* 1..next_session_id-1.
C1_IdsMonotonic ==
    /\ Len(returned) >= 1 => returned[1] = 1
    /\ \A i, j \in DOMAIN returned : i < j => returned[i] < returned[j]
    /\ \A sid \in Live : 1 <= sid /\ sid <= next_session_id - 1

\* Two ids were returned and the first one has been closed since.
C1_Witness ==
    /\ returned = <<1, 2>>
    /\ Live = {2}

\* C2: when handler threads of different connections run create_session
\* concurrently, the returned ids are pairwise distinct and increase in
\* allocation order, and every stored session dict has an id of its own (no
\* entry is overwritten).
C2_ConcurrentIdsDistinct ==
    /\ \A i, j \in DOMAIN returned : i < j => returned[i] < returned[j]
    /\ Cardinality(Range(returned)) = heap_next

\* C3: an infer without a model on a live session resolves to the model the
\* session was created with (the process default when it was created without
\* one), whatever was created, closed or inferred in between.
C3_StickyModel ==
    \A c \in Conns :
        (AfterInfer(c) /\ ~Truthy(req[c].model) /\ loc[c].was_live) =>
            /\ req[c].session_id \in Live
            /\ reply[c].type = "response"
            /\ reply[c].response.model_used = StickyOf(req[c].session_id)

\* The second session, created with a model of its own, answers an infer
\* that names no model.
C3_Witness ==
    \E c \in Conns :
        /\ AfterInfer(c) /\ req[c].model = None /\ req[c].session_id = 2
        /\ Live = {2}
        /\ sessions[2].given = MetaSupported
        /\ reply[c].type = "response"
        /\ reply[c].response.model_used = MetaSupported

\* C4: an infer with an explicit (non-empty) model on a live session resolves
\* to that model, and the stored model of every live session is still the
\* one it was created with.
C4_OverrideIsTransient ==
    /\ \A c \in Conns :
          (AfterInfer(c) /\ Truthy(req[c].model) /\ loc[c].was_live) =>
              /\ reply[c].type = "response"
              /\ reply[c].response.model_used = req[c].model
    /\ \A sid \in Live : sessions[sid].model = StickyOf(sid)

\* A session created with one model has answered an infer that named another.
C4_Witness ==
    \E c \in Conns :
        /\ AfterInfer(c) /\ req[c].model = MistralSupported
        /\ req[c].session_id \in Live
        /\ sessions[req[c].session_id].given = MetaSupported
        /\ sessions[req[c].session_id].model = MetaSupported
        /\ sessions[req[c].session_id].requests = 1
        /\ reply[c].type = "response"
        /\ reply[c].response.model_used = MistralSupported

\* C5: an infer without a model whose session id names no live session (0,
\* never allocated, or closed) gets a normal response resolved to the process
\* default model, and the id still names no session afterwards.
C5_UnknownSessionIsDefault ==
    \A c \in Conns :
        (AfterInfer(c) /\ ~Truthy(req[c].model) /\ ~loc[c].was_live) =>
            /\ reply[c].type = "response"
            /\ reply[c].response.model_used = default_model
            /\ req[c].session_id \notin Live

\* Session 1 was created and closed, and an infer on id 1 was answered.
C5_Witness ==
    \E c \in Conns :
        /\ AfterInfer(c) /\ req[c].model = None /\ req[c].session_id = 1
        /\ heap_next >= 1 /\ 1 \notin Live
        /\ reply[c].type = "response"
        /\ reply[c].response.model_used = default_model

\* C6: close_session never touches the id counter, leaves the registry as it
\* is when the id names no live session, removes exactly the named entry
\* when it does, and is always answered with success.
C6_CloseIdempotent ==
    [][\A c \in Conns :
         (pc[c] \in {"cl_check", "cl_del"} /\ pc'[c] # pc[c]) =>
            /\ next_session_id' = next_session_id
            /\ req[c].session_id \notin Live => sessions' = sessions
            /\ (req[c].session_id \in Live /\ pc[c] = "cl_del") =>
                  /\ DOMAIN sessions' = Live \ {req[c].session_id}
                  /\ \A k \in DOMAIN sessions' : sessions'[k] = sessions[k]
            /\ (req[c].session_id \in Live /\ pc[c] = "cl_check") =>
                  sessions' = sessions
            /\ pc'[c] = "loop" => reply'[c] = SuccessReply]_vars

\* A close_session on an id that was closed before has been answered.
C6_Witness ==
    \E c \in Conns :
        /\ AfterClose(c) /\ ~loc[c].was_live
        /\ req[c].session_id >= 1 /\ req[c].session_id <= heap_next
        /\ reply[c] = SuccessReply

\* C7: infer passes a request to the local adapter if and only if the local
\* adapter is available and the effective model is not namespaced.
C7_LocalIffNotNamespaced ==
    \A c \in Conns :
        (AfterInfer(c) /\ reply[c].type = "response") =>
            ("ollama.generate" \in Range(calls[c])
                <=> (ollama_available /\ ~IsNamespaced(loc[c].model)))

\* C8: with the local adapter available, an infer whose effective model is
\* not namespaced invokes neither load_model nor generate of the distributed
\* adapter, and is answered by the local adapter whatever the call's outcome.
C8_LocalNeverReachesPetals ==
    \A c \in Conns :
        (req[c].action = "infer" /\ ollama_available
           /\ Truthy(loc[c].model) /\ ~IsNamespaced(loc[c].model)) =>
            /\ Range(calls[c]) \subseteq {"ollama.generate"}
            /\ pc[c] \notin {"pt_check", "pl_tok", "pl_model", "pt_gen"}
            /\ pc[c] = "loop" =>
                  /\ reply[c].type = "response"
                  /\ reply[c].response.backend = "ollama"

\* Both adapters are available and the local call for the default model
\* failed: the reply is the local adapter's error.
C8_Witness ==
    \E c \in Conns :
        /\ AfterInfer(c) /\ ollama_available /\ petals_available
        /\ loc[c].model = default_model
        /\ calls[c] = <<"ollama.generate">>
        /\ reply[c].type = "response"
        /\ reply[c].response.backend = "ollama"
        /\ reply[c].response.error # NoError

\* C9: with the local adapter unavailable and the distributed one available,
\* an infer whose effective model is a namespaced name of the supported list
\* is passed to the distributed adapter and answered with backend petals.
C9_SupportedGoesToPetals ==
    \A c \in Conns :
        (AfterInfer(c) /\ ~ollama_available /\ petals_available
           /\ IsNamespaced(loc[c].model) /\ loc[c].model \in Supported) =>
            /\ Len(calls[c]) >= 1
            /\ calls[c][1] = "petals.generate"
            /\ "ollama.generate" \notin Range(calls[c])
            /\ reply[c].type = "response"
            /\ reply[c].response.backend = "petals"

\* A supported model outside the meta-llama organization was generated by
\* the distributed adapter.
C9_Witness ==
    \E c \in Conns :
        /\ AfterInfer(c) /\ ~ollama_available /\ petals_available
        /\ loc[c].model = MistralSupported
        /\ reply[c].type = "response"
        /\ reply[c].response.backend = "petals"
        /\ reply[c].response.text # <<>>

\* Routing rule (a) and rule (b), as the specification states them.
RuleLocal(model) == ollama_available /\ ~IsNamespaced(model)
RuleDistributed(model) == petals_available /\ model \in Supported

\* C10: whenever neither routing rule applies, infer calls no adapter and
\* answers with a normal response: backend none, the fixed non-empty error,
\* empty text, no tokens and no rate.
C10_NoBackendResponse ==
    \A c \in Conns :
        (AfterInfer(c) /\ ~RuleLocal(loc[c].model)
           /\ ~RuleDistributed(loc[c].model)) =>
            /\ calls[c] = <<>>
            /\ reply[c].type = "response"
            /\ reply[c].response.backend = "none"
            /\ reply[c].response.error = NoBackendError
            /\ reply[c].response.text = <<>>
            /\ reply[c].response.tokens_generated = 0
            /\ reply[c].response.tokens_per_second.num = 0

\* C11: the response to an infer carries the session id of the request,
\* whichever branch produced it (local adapter, distributed adapter, or the
\* NONE response) and whether or not the id names a live session.
C11_SessionIdStamped ==
    \A c \in Conns :
        AfterInfer(c) =>
            /\ reply[c].type = "response"
            /\ reply[c].response.session_id = req[c].session_id

\* An infer on an id that names no session was refused by the distributed
\* adapter, and the error response carries the id.
C11_Witness ==
    \E c \in Conns :
        /\ AfterInfer(c) /\ req[c].session_id = 2 /\ ~loc[c].was_live
        /\ reply[c].type = "response"
        /\ reply[c].response.backend = "petals"
        /\ reply[c].response.error # NoError
        /\ reply[c].response.session_id = 2

\* C12: every response of infer has either a non-empty text and no error,
\* or an error and an empty text; none has an empty text and no error, and
\* none has both a text and an error.
C12_TextXorError ==
    \A c \in Conns :
        (AfterInfer(c) /\ reply[c].type = "response") =>
            LET r == reply[c].response
            IN \/ r.text # <<>> /\ r.error = NoError
               \/ r.text = <<>> /\ r.error # NoError

\* C13: whenever the backend call of an infer failed (timeout, non-200
\* status, malformed body, model not loaded, decode failure), the request is
\* answered with a response that has an error, an empty text, no tokens and
\* no rate.
C13_FailureIsErrorResponse ==
    \A c \in Conns :
        (AfterInfer(c) /\ loc[c].fault # NoFault) =>
            /\ reply[c].type = "response"
            /\ reply[c].response.error # NoError
            /\ reply[c].response.text = <<>>
            /\ reply[c].response.tokens_generated = 0
            /\ reply[c].response.tokens_per_second.num = 0

\* C17: a well-formed request whose action is none of the recognized ones is
\* answered at once with the error "Unknown action: <name>", with no adapter
\* call and with the session registry and the id counter left as they were.
C17_UnknownActionError ==
    [][\A c \in Conns :
         (pc[c] = "recv" /\ pc'[c] # "recv" /\ pc'[c] # "closed"
            /\ req'[c].action \notin KnownActions \cup MalformedKinds) =>
             /\ pc'[c] = "loop"
             /\ reply'[c] = [type |-> "error",
                             error |-> "Unknown action: " \o req'[c].action]
             /\ calls'[c] = <<>>
             /\ sessions' = sessions
             /\ next_session_id' = next_session_id]_vars

\* With a session open, a request with an unknown action has been answered.
C17_Witness ==
    \E c \in Conns :
        /\ pc[c] = "loop" /\ req[c].action = "ping"
        /\ reply[c] = [type |-> "error", error |-> "Unknown action: ping"]
        /\ Live # {}

\* The handler of c has read an infer for session sid and has not stored
\* the session's incremented counter yet.
Counting(c, sid) ==
    /\ req[c].action = "infer" /\ req[c].session_id = sid
    /\ pc[c] \in {"inf_check", "inf_model", "inf_get", "inf_put"}

\* C20: with requests handled one after the other, the request counter of a
\* live session is the number of infer requests processed with its id since
\* its creation (0 at creation), with or without an explicit model; infers
\* on other ids and on ids that name no session count for no session.
C20_RequestCount ==
    \A sid \in Live :
        sessions[sid].requests + Cardinality({c \in Conns : Counting(c, sid)})
            = sessions[sid].infers

\* Of two live sessions, the first has answered one infer, which named a
\* model of its own, and the second none.
C20_Witness ==
    \E c \in Conns :
        /\ AfterInfer(c) /\ req[c].session_id = 1 /\ req[c].model = LocalModel
        /\ Live = {1, 2}
        /\ sessions[1].requests = 1 /\ sessions[1].infers = 1
        /\ sessions[2].requests = 0 /\ sessions[2].infers = 0

\* The handler of c has read an infer message and has not answered it yet.
InferInFlight(c) == req[c].action = "infer" /\ pc[c] # "loop"

\* C14: whatever adapters are available and whatever the backend call does,
\* an infer message read from a connection is eventually answered with a
\* reply on that connection.
C14_InferAnswered ==
    \A c \in Conns :
        InferInFlight(c) ~> (AfterInfer(c) /\ reply[c].type \in {"response", "error"})

\* With no adapter available, an infer has been answered.
C14_Witness ==
    \E c \in Conns :
        /\ AfterInfer(c) /\ ~ollama_available /\ ~petals_available
        /\ reply[c].type = "response"
        /\ reply[c].response.backend = "none"

\* C15: on each connection every message read gets one reply before the
\* next message is read, whatever its action or type tag: when a handler is
\* back at the head of its loop after a message, the reply has been sent.
C15_OneReplyPerMessage ==
    \A c \in Conns :
        (pc[c] = "loop" /\ req[c] # NoRequest) => reply[c] # NoReply

\* C16: a message that cannot be parsed into a request is answered with one
\* error reply and the connection stays open for the next message.
C16_MalformedAnswered ==
    \A c \in Conns :
        req[c].action \in MalformedKinds =>
            /\ pc[c] = "loop"
            /\ reply[c].type = "error"

\* C19: a request that is in flight when shutdown is requested is completed
\* and answered before its connection ends.
C19_InFlightCompletes ==
    \A c \in Conns :
        (pc[c] \in {"closed", "killed"} /\ req[c].action = "generate") =>
            reply[c].type = "result"

\* A failure on connection c in this step: the connection is lost while the
\* handler waits for a message, or the message is answered with an error
\* (it was no request, or its handling raised).
Failure(c) ==
    \/ pc[c] = "recv" /\ pc'[c] = "closed"
    \/ pc[c] \notin {"loop", "none", "closed"} /\ pc'[c] = "loop"
          /\ reply'[c].type = "error"

\* C18: a failure on one connection ends at most that connection: its
\* handler goes back to its loop or closes, the handlers of the other
\* connections are where they were with their requests and replies, and the
\* server keeps running and listening as before.
C18_FailureIsLocal ==
    [][\A c \in Conns :
         Failure(c) =>
             /\ pc'[c] \in {"loop", "closed"}
             /\ \A d \in Conns \ {c} :
                   /\ pc'[d] = pc[d] /\ req'[d] = req[d]
                   /\ reply'[d] = reply[d] /\ loc'[d] = loc[d]
             /\ running' = running
             /\ listener' = listener]_vars

\* Two connections closed the same session at the same time: the handling
\* of one raised and was answered with an error, the other was answered
\* with success, and the server is still listening.
C18_Witness ==
    \E c, d \in Conns :
        /\ c # d
        /\ pc[c] = "loop" /\ reply[c] = ErrorReply("KeyError")
        /\ pc[d] = "loop" /\ reply[d] = SuccessReply
        /\ running /\ listener = "listening"

\* ------------------------------------------------------------------ C21
\* C21: the local adapter's availability that infer consults is true only
\* if the local service answers its liveness probe at that moment: an infer
\* is handed to the local adapter by rule (a) only while the service is up
\* (and the distributed adapter's availability never changes).
C21_LocalRoutedOnlyIfUp ==
    [][ /\ \A c \in Conns :
            (pc[c] = "inf_route" /\ pc'[c] = "loop"
             /\ reply'[c].type = "response"
             /\ reply'[c].response.backend = "ollama") => ollama_up
        /\ petals_available' = petals_available ]_vars

\* ------------------------------------------------------------------ C22
AfterList(c) == pc[c] = "loop" /\ req[c].action = "list_models"

\* C22: the reply to list_models is the local adapter's list followed by
\* the distributed adapter's list, each in its own order and nothing
\* removed; the local part is empty when the catalog query fails or the
\* local adapter is unavailable, and the reply is the normal one even then.
C22_LocalThenDistributed ==
    \A c \in Conns :
        AfterList(c) =>
            LET local == IF loc[c].fault = NoFault THEN loc[c].catalog ELSE <<>>
                n == Len(local)
                ms == reply[c].models
            IN /\ reply[c].type = "models"
               /\ Len(ms) = n + Len(SUPPORTED_MODELS)
               /\ \A i \in 1..n :
                     ms[i].name = local[i] /\ ms[i].backend = "ollama"
               /\ \A j \in DOMAIN SUPPORTED_MODELS :
                     /\ ms[n + j].name = SUPPORTED_MODELS[j]
                     /\ ms[n + j].backend = "petals"

\* A name the local service holds too is listed twice.
C22_Witness ==
    \E c \in Conns :
        /\ AfterList(c)
        /\ loc[c].fault = NoFault
        /\ \E i, j \in DOMAIN reply[c].models :
              /\ i < j
              /\ reply[c].models[i].name = reply[c].models[j].name
              /\ reply[c].models[i].backend = "ollama"
              /\ reply[c].models[j].backend = "petals"

\* The catalog query failed and the distributed list is the whole reply.
C22_FailedQuery ==
    \E c \in Conns :
        /\ AfterList(c)
        /\ loc[c].fault = "catalog query failed"
        /\ loc[c].catalog # <<>>
        /\ Len(reply[c].models) = Len(SUPPORTED_MODELS)

LoadLabels == {"pt_check", "pl_tok", "pl_model"}

\* C27: in a sequential run the distributed adapter loads a model inside
\* generate and only there, when and only when the model is not recorded as
\* loaded; a loaded model stays loaded; a failed load is answered with the
\* error "Model not loaded", no tokens and empty text, and leaves the model
\* unrecorded, so that the next generate loads again; and a recorded model
\* has its tokenizer recorded.
C27_LazyMemoizedLoad ==
    [][ /\ petals_models' \subseteq petals_tokenizers'
        /\ petals_models \subseteq petals_models'
        /\ \A c \in Conns :
              /\ (pc[c] = "pt_check" /\ pc'[c] # "pt_check") =>
                    /\ calls[c] = <<"petals.generate">>
                    /\ IF loc[c].model \in petals_models
                       THEN calls'[c] = calls[c] /\ pc'[c] = "pt_gen"
                       ELSE calls'[c] = <<"petals.generate", "petals.load_model">>
              /\ (pc[c] \in LoadLabels /\ pc'[c] = "loop") =>
                    /\ reply'[c].type = "response"
                    /\ reply'[c].response.error = "Model not loaded"
                    /\ reply'[c].response.tokens_generated = 0
                    /\ reply'[c].response.text = <<>>
                    /\ loc[c].model \notin petals_models'
        /\ petals_models' # petals_models =>
              \E c \in Conns :
                  /\ pc[c] = "pl_model"
                  /\ calls[c] = <<"petals.generate", "petals.load_model">>
                  /\ petals_models' = petals_models \cup {loc[c].model}
      ]_vars

\* A generate for a model loaded by an earlier request did not load.
C27_Witness ==
    \E c \in Conns :
        /\ AfterInfer(c)
        /\ loc[c].model \in petals_models
        /\ calls[c] = <<"petals.generate">>
        /\ reply[c].response.error = NoError

\* A load failed after the tokenizer was stored, and the next generate for
\* the model is loading again.
C27_Reload ==
    \E c \in Conns :
        /\ pc[c] = "pl_tok"
        /\ loc[c].model \in petals_tokenizers
        /\ loc[c].model \notin petals_models

\* ------------------------------------------------------------------ C28
Generates == {"ollama.generate", "petals.generate"}

\* C28: an infer calls generate of at most one adapter and calls it once,
\* and the reply is that adapter's response; when the local adapter was
\* called and failed, the reply is the local adapter's error response:
\* nothing is called again and no other backend answers.
C28_OneGenerate ==
    \A c \in Conns :
        /\ Cardinality({i \in DOMAIN calls[c] : calls[c][i] \in Generates}) <= 1
        /\ (AfterInfer(c) /\ reply[c].type = "response") =>
              /\ "ollama.generate" \in Range(calls[c])
                    <=> reply[c].response.backend = "ollama"
              /\ "petals.generate" \in Range(calls[c])
                    <=> reply[c].response.backend = "petals"
        /\ (AfterInfer(c) /\ "ollama.generate" \in Range(calls[c])
               /\ loc[c].fault = "timeout") =>
              /\ calls[c] = <<"ollama.generate">>
              /\ reply[c] = ResponseReply(Stamp(
                     OllamaGenerate(loc[c].model, [exc |-> TRUE]), req[c].session_id))

\* The local call failed for a model the distributed adapter supports and
\* would have served.
C28_Witness ==
    \E c \in Conns :
        /\ AfterInfer(c)
        /\ loc[c].fault = "timeout"
        /\ calls[c] = <<"ollama.generate">>
        /\ petals_available
        /\ loc[c].model \in Supported
        /\ reply[c].response.backend = "ollama"
        /\ reply[c].response.error # NoError

\* ------------------------------------------------------------------ C29
\* C29: the set of live sessions changes only in a step of create_session,
\* which adds exactly one id that was not live, and in a step of
\* close_session, which removes the id it names and no other; no step of
\* any other request, of a malformed message, or of a connection closing
\* or failing adds or removes a session.
C29_OnlyCreateAndClose ==
    [][ DOMAIN sessions' # DOMAIN sessions =>
          \E c \in Conns :
              \/ /\ req[c].action = "create_session"
                 /\ pc[c] = "cs_store"
                 /\ loc[c].session_id \notin DOMAIN sessions
                 /\ DOMAIN sessions' = DOMAIN sessions \cup {loc[c].session_id}
              \/ /\ req[c].action = "close_session"
                 /\ pc[c] = "cl_del"
                 /\ DOMAIN sessions' = DOMAIN sessions \ {req[c].session_id}
      ]_vars

\* A session outlives the only connection there has been, over which it
\* was created.
C29_Witness ==
    \E c \in Conns :
        /\ pc[c] = "closed"
        /\ \A d \in Conns \ {c} : pc[d] = "none"
        /\ Live # {}

\* ------------------------------------------------------------------ C24
\* C24: registry accesses of different handler threads exclude one another,
\* so that no update is lost: the store of an infer's increment into a live
\* session takes the counter the registry holds at that moment one higher,
\* and k concurrent infers on the session raise it by exactly k.
C24_NoLostUpdate ==
    [][ \A c \in Conns :
          (/\ pc[c] = "inf_put" /\ pc'[c] = "inf_route"
           /\ req[c].session_id \in DOMAIN sessions
           /\ sessions[req[c].session_id].obj = loc[c].obj) =>
              sessions'[req[c].session_id].requests
                  = sessions[req[c].session_id].requests + 1
      ]_vars

\* ------------------------------------------------------------------ C25
\* C25: an infer on a session that another connection closes at the same
\* time is answered with a normal response, for the session's model or for
\* the default one; it is never answered with the error of a session that
\* went away between the lookup and the use.
C25_InferSurvivesClose ==
    \A c \in Conns :
        AfterInfer(c) =>
            /\ reply[c].type = "response"
            /\ ~Truthy(req[c].model) =>
                  \/ reply[c].response.model_used = default_model
                  \/ \E m \in SessionModels :
                        reply[c].response.model_used = m

\* ------------------------------------------------------------------ C26
\* C26: for each model name at most one load is in progress in the
\* distributed adapter at any time: of two concurrent first generates for a
\* model one loads and the other waits or is told to retry.
C26_OneLoadAtATime ==
    \A c, d \in Conns :
        (/\ c # d
         /\ pc[c] \in {"pl_tok", "pl_model"}
         /\ pc[d] \in {"pl_tok", "pl_model"}) => loc[c].model # loc[d].model

====
